---- MODULE Spec2Model ----
(***************************************************************************)
(* A model of sensei/pdf_to_html.py and sensei/pic_extract.py: the column  *)
(* reorderer (convert_layout), the rendering assembler (generate_html),    *)
(* the glyph line grouper (extract_text_with_positions), the constructors  *)
(* and the command-line entry point (main).                                *)
(*                                                                         *)
(* Python strings are sequences of one-character strings; a PDFTextBlock   *)
(* is a record with the fields of the class; a list is a sequence; a dict  *)
(* is its key sequence in insertion order plus a lookup operator.          *)
(***************************************************************************)
EXTENDS Integers, Sequences, FiniteSets

VARIABLES
  pc,                \* the control point of the call under way
  text_blocks,       \* List[PDFTextBlock]: the argument / self.text_blocks
  images,            \* List[PDFImage]: the argument / self.images
  converted_blocks,  \* the list convert_layout returned
  html_content,      \* the content parts generate_html returned
  pdf,               \* the document at the input path, as the PDF libraries read it
  program,           \* the entry point that runs: "pdf_to_html" or "pic_extract"
  argv,              \* the parsed arguments of main
  fs,                \* the file system: the paths that exist, the files written
  self,              \* the fields of the constructed converter / extractor
  raised,            \* the exception raised in main's try block, "none" if none
  result,            \* what main returned, -1 while it has not returned
  calls,             \* how often the constructor and convert were entered
  handles,           \* documents opened so far, and those still open
  output_files       \* the list PDFImageExtractor.extract_images returned

dataVars == <<pc, text_blocks, images, converted_blocks, html_content, pdf>>
mainVars == <<program, argv, fs, self, raised, result, calls, handles, output_files>>
vars == <<dataVars, mainVars>>

----------------------------------------------------------------------------
(* Generic helpers for Python's list operations.                           *)

Abs(n) == IF n < 0 THEN -n ELSE n

Reverse(s) == [i \in 1..Len(s) |-> s[Len(s) + 1 - i]]

RECURSIVE Flatten(_)
Flatten(ss) == IF ss = <<>> THEN <<>> ELSE Head(ss) \o Flatten(Tail(ss))

Count(s, e) == Cardinality({i \in 1..Len(s) : s[i] = e})

Range(s) == {s[i] : i \in 1..Len(s)}

Min(S) == CHOOSE m \in S : \A e \in S : m <= e
Max(S) == CHOOSE m \in S : \A e \in S : e <= m

RECURSIVE Sum(_)
Sum(s) == IF s = <<>> THEN 0 ELSE Head(s) + Sum(Tail(s))

SeqsUpTo(S, n) == UNION {[1..k -> S] : k \in 0..n}

\* Characters str.strip() removes.
Whitespace == {" ", "\t", "\n"}

\* str.strip(): the text without its leading and trailing whitespace.
RECURSIVE lstrip(_)
lstrip(text) ==
  IF text # <<>> /\ Head(text) \in Whitespace THEN lstrip(Tail(text)) ELSE text

strip(text) == Reverse(lstrip(Reverse(lstrip(text))))

\* Python's tuple comparison on keys of equal length.
LexLess(a, b) ==
  \E i \in 1..Len(a) : a[i] < b[i] /\ \A j \in 1..(i - 1) : a[j] = b[j]

\* list.sort(key=...) / sorted(..., key=...): ascending and stable, so an
\* element's place is the number of elements with a smaller key, or with an
\* equal key and an earlier position.
\* keys[i] is the key of s[i].
StableSort(s, keys) ==
  LET n == Len(s)
      before(j, i) == \/ LexLess(keys[j], keys[i])
                      \/ (keys[j] = keys[i] /\ j < i)
      rank(i) == Cardinality({j \in 1..n : before(j, i)}) + 1
  IN  [r \in 1..n |-> s[CHOOSE i \in 1..n : rank(i) = r]]

----------------------------------------------------------------------------
(* PDFToHTMLConverter.convert_layout                                       *)

column_tolerance == 50

\* pages = {}; for block in text_blocks: ... pages[block.page] = []
\* The keys of the dict, in insertion order (order of first appearance).
RECURSIVE layout_page_keys(_)
layout_page_keys(blocks) ==
  IF blocks = <<>> THEN <<>>
  ELSE LET rest == layout_page_keys(SubSeq(blocks, 1, Len(blocks) - 1))
           page == blocks[Len(blocks)].page
       IN  IF page \in Range(rest) THEN rest ELSE Append(rest, page)

\* pages[page]: the blocks of the page, in input order.
layout_page_blocks(blocks, page) == SelectSeq(blocks, LAMBDA b : b.page = page)

sort_key_xy(b) == <<-b.x, b.y>>
sort_key_y(b) == <<b.y>>

\* a sort that is not stable: blocks with equal keys come out reversed
sort_blocks_unstable(blocks) ==
  StableSort(Reverse(blocks),
             [i \in 1..Len(blocks) |-> sort_key_xy(Reverse(blocks)[i])])

\* the sort left out
sort_blocks_skipped(blocks) == blocks

\* blocks.sort(key=lambda b: (-b.x, b.y))
sort_blocks(blocks) ==
  StableSort(blocks, [i \in 1..Len(blocks) |-> sort_key_xy(blocks[i])])

\* sorted(current_column, key=lambda b: b.y), without the sort
sort_column_unsorted(current_column) == current_column

\* sorted(current_column, key=lambda b: b.y)
sort_column(current_column) ==
  StableSort(current_column, [i \in 1..Len(current_column) |-> sort_key_y(current_column[i])])

\* the join test with a strict comparison
same_column_strict(block, current_column) ==
  Abs(block.x - current_column[1].x) < column_tolerance

\* abs(block.x - current_column[0].x) <= tolerance
same_column(block, current_column) ==
  Abs(block.x - current_column[1].x) <= column_tolerance

\* the last column forgotten after the loop
flush_column_dropped(columns, current_column) == columns

\* if current_column: columns.append(sorted(current_column, key=lambda b: b.y))
flush_column(columns, current_column) ==
  IF current_column # <<>> THEN Append(columns, sort_column(current_column))
  ELSE columns

\* The loop over the sorted blocks of one page, and the flush after it.
RECURSIVE group_columns(_, _, _)
group_columns(blocks, columns, current_column) ==
  IF blocks = <<>> THEN flush_column(columns, current_column)
  ELSE LET block == Head(blocks)
       IN  IF current_column = <<>>
             THEN group_columns(Tail(blocks), columns, <<block>>)
           ELSE IF same_column(block, current_column)
             THEN group_columns(Tail(blocks), columns, Append(current_column, block))
           ELSE group_columns(Tail(blocks), flush_column(columns, current_column),
                              <<block>>)

\* columns.reverse() left out
reverse_columns_skipped(columns) == columns

\* columns.reverse()
reverse_columns(columns) == Reverse(columns)

\* The columns of one page, in the order they are emitted.
page_columns(blocks) == reverse_columns(group_columns(sort_blocks(blocks), <<>>, <<>>))

\* the columns formed over the whole list, without the grouping by page
convert_layout_across_pages(blocks) == Flatten(page_columns(blocks))

\* The whole method: per page in dict order, the flattened columns.
convert_layout(blocks) ==
  LET keys == layout_page_keys(blocks)
  IN  Flatten([k \in 1..Len(keys) |->
                 Flatten(page_columns(layout_page_blocks(blocks, keys[k])))])

----------------------------------------------------------------------------
(* The document. A page holds what pdfplumber gives (chars), what PyMuPDF  *)
(* gives (rotation, rect) and what pytesseract would give for its raster   *)
(* (ocr_jpn, ocr_eng: a token list, or an exception).                      *)

NoOcr == [raises |-> FALSE, tokens |-> <<>>]

\* A page of an upright document without embedded images.
Page(chars, ocr_jpn, ocr_eng) ==
  [chars |-> chars, rotation |-> 0, width |-> 600, height |-> 800,
   ocr_jpn |-> ocr_jpn, ocr_eng |-> ocr_eng, images |-> <<>>, render_fault |-> FALSE]

\* A document: its pages, and whether pdfplumber.open / fitz.open raise on it.
Document(pages, plumber_fault, fitz_fault) ==
  [pages |-> pages, plumber_fault |-> plumber_fault, fitz_fault |-> fitz_fault]

\* The value of pdf while no document is involved.
NoPdf == Document(<<>>, FALSE, FALSE)

\* The values of main's variables while main does not run.
NoMain ==
  /\ program = "none"
  /\ argv = [input_pdf |-> <<>>, output |-> <<>>]
  /\ fs = [existing |-> {}, read_only |-> FALSE, written |-> <<>>]
  /\ self = [constructed |-> FALSE]
  /\ raised = "none"
  /\ result = -1
  /\ calls = [init |-> 0, convert |-> 0]
  /\ handles = [opened |-> 0, open |-> 0]
  /\ output_files = <<>>

----------------------------------------------------------------------------
(* PDFToHTMLConverter._create_text_block_from_chars                        *)

PDFTextBlock(text, x, y, width, height, page) ==
  [text |-> text, x |-> x, y |-> y, width |-> width, height |-> height, page |-> page]

create_text_block_from_chars(chars, page_num) ==
  LET text == Flatten([i \in 1..Len(chars) |-> chars[i].text])
      x_coords == {chars[i].x0 : i \in 1..Len(chars)} \cup {chars[i].x1 : i \in 1..Len(chars)}
      y_coords == {chars[i].y0 : i \in 1..Len(chars)} \cup {chars[i].y1 : i \in 1..Len(chars)}
      x == Min(x_coords)
      y == Min(y_coords)
  IN  PDFTextBlock(text, x, y, Max(x_coords) - x, Max(y_coords) - y, page_num)

----------------------------------------------------------------------------
(* PDFToHTMLConverter.extract_text_with_ocr                                *)

ocr_tolerance == 20
ocr_min_conf == 30
ocr_zoom == 2

\* ' '.join(block['text'] for block in current_line_blocks)
RECURSIVE join_space(_)
join_space(texts) ==
  IF texts = <<>> THEN <<>>
  ELSE IF Len(texts) = 1 THEN texts[1]
  ELSE texts[1] \o <<" ">> \o join_space(Tail(texts))

\* The text block of one OCR line. The sort of the line by x that the code
\* does after joining the text changes neither the text nor the envelope.
ocr_line_block(line, page_num) ==
  LET line_text == join_space([i \in 1..Len(line) |-> line[i].text])
      min_x == Min({line[i].x : i \in 1..Len(line)})
      min_y == Min({line[i].y : i \in 1..Len(line)})
      max_x == Max({line[i].x + line[i].width : i \in 1..Len(line)})
      max_y == Max({line[i].y + line[i].height : i \in 1..Len(line)})
  IN  PDFTextBlock(line_text, min_x, min_y, max_x - min_x, max_y - min_y, page_num)

\* The position of a token: scaled back from the 2x raster (token coordinates
\* are even, so the division is exact) and reflected on a page rotated by 180.
ocr_token_box(token, page) ==
  LET x == token.left \div ocr_zoom
      y == token.top \div ocr_zoom
      w == token.width \div ocr_zoom
      h == token.height \div ocr_zoom
  IN  [text |-> token.text,
       x |-> IF page.rotation = 180 THEN page.width - x - w ELSE x,
       y |-> IF page.rotation = 180 THEN page.height - y - h ELSE y,
       width |-> w, height |-> h]

\* The loop over the tokens of one page. out holds the blocks appended to
\* text_blocks so far; line is empty exactly while current_line_y is None.
\* A token whose confidence cannot be read (int(...) raises) ends the page:
\* the except clause keeps what was appended and drops the line under way.
RECURSIVE ocr_group_tokens(_, _, _, _, _, _)
ocr_group_tokens(tokens, page, page_num, line, line_y, out) ==
  IF tokens = <<>>
    THEN IF line # <<>> THEN Append(out, ocr_line_block(line, page_num)) ELSE out
  ELSE LET token == Head(tokens)
           box == ocr_token_box(token, page)
       IN  IF strip(token.text) = <<>>
             THEN ocr_group_tokens(Tail(tokens), page, page_num, line, line_y, out)
           ELSE IF token.faulty
             THEN out
           ELSE IF token.conf < ocr_min_conf
             THEN ocr_group_tokens(Tail(tokens), page, page_num, line, line_y, out)
           ELSE IF line = <<>> \/ Abs(box.y - line_y) <= ocr_tolerance
             THEN ocr_group_tokens(Tail(tokens), page, page_num, Append(line, box),
                                   IF line = <<>> THEN box.y ELSE line_y, out)
           ELSE ocr_group_tokens(Tail(tokens), page, page_num, <<box>>, box.y,
                                 Append(out, ocr_line_block(line, page_num)))

\* The try block of one page: Japanese OCR, the jpn+eng fallback when it
\* gives no text, then the grouping; an exception gives up the page.
ocr_page(page, page_num) ==
  IF page.ocr_jpn.raises THEN <<>>
  ELSE IF \E i \in 1..Len(page.ocr_jpn.tokens) : strip(page.ocr_jpn.tokens[i].text) # <<>>
    THEN ocr_group_tokens(page.ocr_jpn.tokens, page, page_num, <<>>, 0, <<>>)
  ELSE IF page.ocr_eng.raises THEN <<>>
  ELSE ocr_group_tokens(page.ocr_eng.tokens, page, page_num, <<>>, 0, <<>>)

extract_text_with_ocr(doc) ==
  Flatten([n \in 1..Len(doc.pages) |-> ocr_page(doc.pages[n], n - 1)])

----------------------------------------------------------------------------
(* PDFToHTMLConverter.extract_text_with_positions                          *)

line_tolerance == 2

\* the test with a strict comparison
same_line_strict(char, current_y) == Abs(char.y0 - current_y) < line_tolerance

\* abs(char['y0'] - current_y) <= tolerance
same_line(char, current_y) == Abs(char.y0 - current_y) <= line_tolerance

\* the loop without the flush of the last line
RECURSIVE group_chars_unflushed(_, _, _, _)
group_chars_unflushed(chars, current_line, current_y, page_num) ==
  IF chars = <<>> THEN <<>>
  ELSE LET char == Head(chars)
       IN  IF current_line = <<>>
             THEN group_chars_unflushed(Tail(chars), <<char>>, char.y0, page_num)
           ELSE IF same_line(char, current_y)
             THEN group_chars_unflushed(Tail(chars), Append(current_line, char),
                                        current_y, page_num)
           ELSE <<create_text_block_from_chars(current_line, page_num)>>
                \o group_chars_unflushed(Tail(chars), <<char>>, char.y0, page_num)

\* the loop comparing each char with the one before it
RECURSIVE group_chars_previous(_, _, _, _)
group_chars_previous(chars, current_line, current_y, page_num) ==
  IF chars = <<>>
    THEN IF current_line # <<>>
           THEN <<create_text_block_from_chars(current_line, page_num)>>
         ELSE <<>>
  ELSE LET char == Head(chars)
       IN  IF current_line = <<>>
             THEN group_chars_previous(Tail(chars), <<char>>, char.y0, page_num)
           ELSE IF same_line(char, current_y)
             THEN group_chars_previous(Tail(chars), Append(current_line, char),
                                       char.y0, page_num)
           ELSE <<create_text_block_from_chars(current_line, page_num)>>
                \o group_chars_previous(Tail(chars), <<char>>, char.y0, page_num)

\* The loop over the chars of one page and the flush of the last line.
\* current_line is empty exactly while current_y is None.
RECURSIVE group_chars(_, _, _, _)
group_chars(chars, current_line, current_y, page_num) ==
  IF chars = <<>>
    THEN IF current_line # <<>>
           THEN <<create_text_block_from_chars(current_line, page_num)>>
         ELSE <<>>
  ELSE LET char == Head(chars)
       IN  IF current_line = <<>>
             THEN group_chars(Tail(chars), <<char>>, char.y0, page_num)
           ELSE IF same_line(char, current_y)
             THEN group_chars(Tail(chars), Append(current_line, char), current_y, page_num)
           ELSE <<create_text_block_from_chars(current_line, page_num)>>
                \o group_chars(Tail(chars), <<char>>, char.y0, page_num)

\* The blocks of the text layer: "if chars:" skips a page without chars.
text_layer_blocks(doc) ==
  Flatten([n \in 1..Len(doc.pages) |->
             IF doc.pages[n].chars # <<>>
               THEN group_chars(doc.pages[n].chars, <<>>, 0, n - 1)
             ELSE <<>>])

\* OCR for every page without chars
extract_text_with_positions_per_page(doc) ==
  Flatten([n \in 1..Len(doc.pages) |->
             IF doc.pages[n].chars # <<>>
               THEN group_chars(doc.pages[n].chars, <<>>, 0, n - 1)
             ELSE ocr_page(doc.pages[n], n - 1)])

\* The whole method: the text layer, or OCR when it gives no block at all.
extract_text_with_positions(doc) ==
  IF text_layer_blocks(doc) = <<>> THEN extract_text_with_ocr(doc)
  ELSE text_layer_blocks(doc)

----------------------------------------------------------------------------
(* Inputs of the calls.                                                    *)

MaxBlocks == 3

Block(t, x, y, p) == [text |-> t, x |-> x, y |-> y, width |-> 50, height |-> 20, page |-> p]

\* Page 0 carries the positions that decide the clustering (50 apart joins,
\* 100 apart does not); page 1 is there for the grouping by page.
LayoutBlocks ==
  {Block(t, x, y, 0) : t \in {<<"a">>, <<"b">>}, x \in {100, 150, 200, 300}, y \in {10, 40}}
  \cup {Block(<<"a">>, x, 10, 1) : x \in {100, 300}}

----------------------------------------------------------------------------
(* A direct call of convert_layout on an arbitrary list.                   *)

InitLayout ==
  /\ pc = "layout_call"
  /\ \E k \in 0..MaxBlocks : text_blocks \in [1..k -> LayoutBlocks]
  /\ images = <<>>
  /\ converted_blocks = <<>>
  /\ html_content = <<>>
  /\ pdf = NoPdf
  /\ NoMain

ConvertLayout ==
  /\ pc = "layout_call"
  /\ converted_blocks' = convert_layout(text_blocks)
  /\ pc' = "layout_done"
  /\ UNCHANGED <<text_blocks, images, html_content, pdf, mainVars>>

\* A second call, on the list the first call returned.
ConvertLayoutAgain ==
  /\ pc = "layout_done"
  /\ converted_blocks' = convert_layout(converted_blocks)
  /\ pc' = "layout_again"
  /\ UNCHANGED <<text_blocks, images, html_content, pdf, mainVars>>

NextLayout == ConvertLayout \/ ConvertLayoutAgain

SpecLayout == InitLayout /\ [][NextLayout]_vars

----------------------------------------------------------------------------
(* PDFToHTMLConverter.generate_html                                        *)
(* The returned string is the fixed template with '\n'.join(content_parts) *)
(* at its placeholder; the value modelled is content_parts, one record per *)
(* part. The template itself holds no page, text-block or image element.   *)

\* the test without the strip: "if block.text:"
has_text_unstripped(block) == block.text # <<>>

\* if block.text.strip():
has_text(block) == strip(block.text) # <<>>

\* pages = {}; for block in text_blocks: ... pages[block.page] = {'text': []}
\* The keys of the dict, in insertion order. The images argument is not read.
html_page_keys(blocks, imgs) == layout_page_keys(blocks)

\* the pages in insertion order: "for page_num in pages.keys()"
html_page_order_unsorted(blocks, imgs) == html_page_keys(blocks, imgs)

\* for page_num in sorted(pages.keys())
html_page_order(blocks, imgs) ==
  LET keys == html_page_keys(blocks, imgs)
  IN  StableSort(keys, [i \in 1..Len(keys) |-> <<keys[i]>>])

\* pages[page_num]['text']
html_page_text(blocks, page_num) == SelectSeq(blocks, LAMBDA b : b.page = page_num)

PageOpen(page_num) == [tag |-> "page", id |-> page_num + 1]
Heading(page_num) == [tag |-> "h2", id |-> page_num + 1]
TextBlockPart(block) == [tag |-> "text-block", text |-> block.text]
PageClose == [tag |-> "/page"]

\* The parts of one page container.
html_page_parts(blocks, page_num) ==
  LET shown == SelectSeq(html_page_text(blocks, page_num), has_text)
  IN  <<PageOpen(page_num), Heading(page_num)>>
      \o [i \in 1..Len(shown) |-> TextBlockPart(shown[i])]
      \o <<PageClose>>

\* The whole method.
generate_html(blocks, imgs) ==
  LET order == html_page_order(blocks, imgs)
  IN  Flatten([k \in 1..Len(order) |-> html_page_parts(blocks, order[k])])

----------------------------------------------------------------------------
(* A direct call of generate_html on arbitrary lists.                      *)

MaxImages == 2

HtmlTexts == {<<>>, <<" ">>, <<"a">>, <<" ", "a", "\n">>}
HtmlBlocks == {[text |-> t, x |-> 10, y |-> 20, width |-> 100, height |-> 15, page |-> p] :
                 t \in HtmlTexts, p \in {0, 1}}
HtmlImages == {[image_data |-> "png", x |-> 50, y |-> 60, width |-> 200, height |-> 150,
                page |-> p] : p \in {0, 1}}

InitHtml ==
  /\ pc = "html_call"
  /\ \E k \in 0..MaxBlocks : text_blocks \in [1..k -> HtmlBlocks]
  /\ \E k \in 0..MaxImages : images \in [1..k -> HtmlImages]
  /\ converted_blocks = <<>>
  /\ html_content = <<>>
  /\ pdf = NoPdf
  /\ NoMain

GenerateHtml ==
  /\ pc = "html_call"
  /\ html_content' = generate_html(text_blocks, images)
  /\ pc' = "html_done"
  /\ UNCHANGED <<text_blocks, images, converted_blocks, pdf, mainVars>>

NextHtml == GenerateHtml

SpecHtml == InitHtml /\ [][NextHtml]_vars


----------------------------------------------------------------------------
(* A direct call of extract_text_with_positions on an arbitrary document.  *)

MaxPages == 2
MaxGlyphs == 3

Glyph(t, x0, y0) == [text |-> <<t>>, x0 |-> x0, x1 |-> x0 + 5, y0 |-> y0, y1 |-> 35]

\* Tops 20 and 22 are on one line (2 apart), 23 is not on the line of 20.
Glyphs == {Glyph("H", 10, y0) : y0 \in {20, 22, 23}}
          \cup {Glyph("e", 15, y0) : y0 \in {20, 22, 23}}

Token(t, conf, top) ==
  [text |-> <<t>>, conf |-> conf, left |-> 20, top |-> top, width |-> 10,
   height |-> 20, faulty |-> FALSE]

\* A token whose confidence int(...) cannot read.
FaultyToken(t, top) == [Token(t, 0, top) EXCEPT !.faulty = TRUE]

\* A page without a text layer: OCR finds nothing, finds two tokens on two
\* lines, fails, or gives a third token whose confidence cannot be read.
ScannedPages ==
  {Page(<<>>, NoOcr, NoOcr),
   Page(<<>>, [raises |-> FALSE, tokens |-> <<Token("x", 90, 40), Token("y", 90, 100)>>],
        NoOcr),
   Page(<<>>, [raises |-> TRUE, tokens |-> <<>>], NoOcr),
   Page(<<>>, [raises |-> FALSE,
               tokens |-> <<Token("x", 90, 40), Token("y", 90, 100),
                            FaultyToken("z", 100)>>], NoOcr)}

\* The glyph counts of up to MaxPages pages with at most MaxGlyphs glyphs in all.
Profiles ==
  {profile \in SeqsUpTo(0..MaxGlyphs, MaxPages) : Sum(profile) <= MaxGlyphs}

\* The document whose i-th page holds the next profile[i] glyphs of chars, or
\* is the scanned page scans[i] when profile[i] = 0. The OCR data of a page
\* with chars is never read by the text-layer path.
MakeDocument(profile, chars, scans) ==
  Document([i \in 1..Len(profile) |->
              IF profile[i] = 0 THEN scans[i]
              ELSE LET start == Sum(SubSeq(profile, 1, i - 1))
                   IN  Page(SubSeq(chars, start + 1, start + profile[i]), NoOcr, NoOcr)],
           FALSE, FALSE)

\* The page of the unit test: the five glyphs of "Hello" on one line.
HelloPage ==
  Page(<<Glyph("H", 10, 20), Glyph("e", 15, 20), Glyph("l", 20, 20),
         Glyph("l", 25, 20), Glyph("o", 30, 20)>>, NoOcr, NoOcr)

InitExtract ==
  /\ pc = "extract_call"
  /\ \/ \E profile \in Profiles :
          \E chars \in [1..Sum(profile) -> Glyphs] :
            \E scans \in [{i \in 1..Len(profile) : profile[i] = 0} -> ScannedPages] :
              pdf = MakeDocument(profile, chars, scans)
     \/ pdf = Document(<<HelloPage>>, FALSE, FALSE)
  /\ NoMain
  /\ text_blocks = <<>>
  /\ images = <<>>
  /\ converted_blocks = <<>>
  /\ html_content = <<>>

ExtractText ==
  /\ pc = "extract_call"
  /\ text_blocks' = extract_text_with_positions(pdf)
  /\ pc' = "extract_done"
  /\ UNCHANGED <<images, converted_blocks, html_content, pdf, mainVars>>

\* A direct call of extract_text_with_ocr on the same document.
ExtractTextWithOcr ==
  /\ pc = "extract_call"
  /\ text_blocks' = extract_text_with_ocr(pdf)
  /\ pc' = "ocr_done"
  /\ UNCHANGED <<images, converted_blocks, html_content, pdf, mainVars>>

NextExtract == ExtractText \/ ExtractTextWithOcr

SpecExtract == InitExtract /\ [][NextExtract]_vars

----------------------------------------------------------------------------
(* PDFToHTMLConverter.extract_images                                       *)
(* An embedded image is what fitz.Pixmap(doc, xref) and get_image_rects    *)
(* give for it; PNG bytes are modelled by the picture they encode: the     *)
(* source image, its colour space, the turn applied (PIL's counter-        *)
(* clockwise degrees) and its size.                                        *)

\* pix.tobytes("png"), after fitz.Pixmap(fitz.csRGB, pix) for CMYK.
pixmap_png(img) ==
  [xref |-> img.xref,
   colorspace |-> IF img.n - img.alpha < 4 THEN "native" ELSE "csRGB",
   turn |-> 0, width |-> img.pix_width, height |-> img.pix_height]

\* the image turned in the sense of the page rotation
rotate_png_same_sense(png, rotation) ==
  IF rotation = 180 THEN [png EXCEPT !.turn = 180]
  ELSE IF rotation = 90
    THEN [png EXCEPT !.turn = 90, !.width = png.height, !.height = png.width]
  ELSE IF rotation = 270
    THEN [png EXCEPT !.turn = 270, !.width = png.height, !.height = png.width]
  ELSE png

\* img_pil.rotate(..., expand=True) by the page rotation, saved as PNG.
rotate_png(png, rotation) ==
  IF rotation = 180 THEN [png EXCEPT !.turn = 180]
  ELSE IF rotation = 90
    THEN [png EXCEPT !.turn = 270, !.width = png.height, !.height = png.width]
  ELSE IF rotation = 270
    THEN [png EXCEPT !.turn = 90, !.width = png.height, !.height = png.width]
  ELSE png

PDFImage(image_data, x, y, width, height, page) ==
  [image_data |-> image_data, x |-> x, y |-> y, width |-> width, height |-> height,
   page |-> page]

\* the placement rectangle recorded as found, for every rotation
page_image_unreflected(img, page, page_num) ==
  LET img_data == IF page.rotation # 0 THEN rotate_png(pixmap_png(img), page.rotation)
                  ELSE pixmap_png(img)
  IN  IF img.rect.found
        THEN PDFImage(img_data, img.rect.x0, img.rect.y0, img.rect.width,
                      img.rect.height, page_num)
      ELSE PDFImage(img_data, 0, 0, img.pix_width, img.pix_height, page_num)

\* One pass of the inner loop: the PDFImage of one embedded image.
page_image(img, page, page_num) ==
  LET img_data == IF page.rotation # 0 THEN rotate_png(pixmap_png(img), page.rotation)
                  ELSE pixmap_png(img)
  IN  IF img.rect.found
        THEN PDFImage(img_data,
                      IF page.rotation = 180
                        THEN page.width - img.rect.x0 - img.rect.width
                      ELSE img.rect.x0,
                      IF page.rotation = 180
                        THEN page.height - img.rect.y0 - img.rect.height
                      ELSE img.rect.y0,
                      img.rect.width, img.rect.height, page_num)
      ELSE PDFImage(img_data, 0, 0, img.pix_width, img.pix_height, page_num)

\* The list the method returns when nothing raises.
extract_images(doc) ==
  Flatten([n \in 1..Len(doc.pages) |->
             [i \in 1..Len(doc.pages[n].images) |->
                page_image(doc.pages[n].images[i], doc.pages[n], n - 1)]])

\* fitz.Pixmap(doc, xref) raises for some image: nothing catches it.
image_decode_raises(doc) ==
  \E n \in 1..Len(doc.pages) : \E i \in 1..Len(doc.pages[n].images) :
    doc.pages[n].images[i].decode_fault

----------------------------------------------------------------------------
(* PDFImageExtractor (pic_extract.py)                                      *)

\* pathlib.Path(...) of a path given by its components: "." components are
\* dropped ("./out" and "out" are the same Path), the others are kept.
Path(parts) == SelectSeq(parts, LAMBDA c : c # ".")

region_split_height == 2500

\* _detect_picture_regions: (x, y, width, height) tuples.
detect_picture_regions(width, height) ==
  LET margin_x == width \div 8
      margin_y == height \div 10
      content_width == width - 2 * margin_x
      content_height == height - 2 * margin_y
  IN  IF height > region_split_height
        THEN << <<margin_x, margin_y, content_width, content_height \div 2>>,
                <<margin_x, margin_y + content_height \div 2, content_width,
                  content_height \div 2>> >>
      ELSE << <<margin_x, margin_y, content_width, content_height>> >>

\* two pictures expected on every page
expected_regions_any_page(img, page, page_num) ==
  LET png == rotate_png(pixmap_png(img), page.rotation)
      picture_regions == detect_picture_regions(png.width, png.height)
  IN  SubSeq(picture_regions, 1, Min({2, Len(picture_regions)}))

\* picture_regions[:expected_pictures]
expected_regions(img, page, page_num) ==
  LET png == rotate_png(pixmap_png(img), page.rotation)
      picture_regions == detect_picture_regions(png.width, png.height)
      expected_pictures == IF page_num = 0 THEN 1 ELSE 2
  IN  SubSeq(picture_regions, 1, Min({expected_pictures, Len(picture_regions)}))

\* The decimal digits of n.
RECURSIVE digits(_)
digits(n) == IF n < 10 THEN <<n>> ELSE Append(digits(n \div 10), n % 10)

\* f"{image_counter:03d}": the digits, zero-padded on the left to three.
format_03d(n) ==
  LET d == digits(n)
  IN  [i \in 1..(3 - Len(d)) |-> 0] \o d

\* the counter starting at 1
output_filename_one_based(prefix, image_counter) ==
  [prefix |-> prefix, number |-> format_03d(image_counter + 1), suffix |-> ".png"]

\* f"{self.output_prefix}_{image_counter:03d}.png": the prefix as given,
\* "_", the number and ".png".
output_filename(prefix, image_counter) ==
  [prefix |-> prefix, number |-> format_03d(image_counter), suffix |-> ".png"]

\* output_path = Path(output_filename), and str(output_path)
output_path(filename) == [filename EXCEPT !.prefix = Path(@)]

\* The embedded images of the document in the order of the two loops.
embedded_images(doc) ==
  Flatten([n \in 1..Len(doc.pages) |->
             [i \in 1..Len(doc.pages[n].images) |->
                [img |-> doc.pages[n].images[i], page |-> doc.pages[n],
                 page_num |-> n - 1, img_index |-> i - 1]]])

\* The images handled before fitz.Pixmap raises for the first time.
RECURSIVE before_decode_fault(_)
before_decode_fault(refs) ==
  IF refs = <<>> \/ Head(refs).img.decode_fault THEN <<>>
  ELSE <<Head(refs)>> \o before_decode_fault(Tail(refs))

\* _remove_text_from_region: the crop of the turned image at the region, in
\* RGB, filtered.
remove_text_from_region(png, region) ==
  [image |-> png, region |-> region, mode |-> "RGB"]

\* The passes of the innermost loop for a run of embedded images: one per
\* region kept, in the order of the three loops.
pic_region_passes(refs) ==
  Flatten([k \in 1..Len(refs) |->
             LET regions == expected_regions(refs[k].img, refs[k].page, refs[k].page_num)
             IN  [j \in 1..Len(regions) |-> [ref |-> refs[k], region |-> regions[j]]]])

\* The files saved by these passes: the pass numbered image_counter saves
\* the clean picture under the path of that number. page_num and img_index
\* record which embedded image a file was cut from.
pic_saved_files(refs, prefix) ==
  LET passes == pic_region_passes(refs)
  IN  [k \in 1..Len(passes) |->
         [path |-> output_path(output_filename(prefix, k - 1)),
          content |-> remove_text_from_region(
                        rotate_png(pixmap_png(passes[k].ref.img),
                                   passes[k].ref.page.rotation),
                        passes[k].region),
          page_num |-> passes[k].ref.page_num,
          img_index |-> passes[k].ref.img_index]]

\* output_files.append(str(output_path)) for each of these files.
pic_saved_paths(refs, prefix) ==
  LET files == pic_saved_files(refs, prefix)
  IN  [k \in 1..Len(files) |-> files[k].path]

\* The list the method returns when nothing raises.
pic_extract_images(doc, prefix) == pic_saved_paths(embedded_images(doc), prefix)

----------------------------------------------------------------------------
(* main of pdf_to_html.py and of pic_extract.py, for valid arguments.      *)

\* "except Exception" with only FileNotFoundError handled
main_catches_only_not_found(exception) == exception = "FileNotFoundError"

\* except Exception as e: the classes raised here all derive from Exception
main_catches(exception) ==
  exception \in {"FileNotFoundError", "PermissionError", "RuntimeError"}

\* the constructor without the existence check
init_raises_never(path) == FALSE

\* if not self.input_pdf_path.exists(): raise FileNotFoundError(...)
init_raises(path) == Path(path) \notin fs.existing

\* pdfplumber.open / fitz.open on the input path
open_raises(fault) == self.input_pdf_path \notin fs.existing \/ fault

\* PDFToHTMLConverter(args.input_pdf, args.output_html)
\* PDFImageExtractor(args.input_pdf, args.output_prefix)
Main_Construct ==
  /\ pc = "main"
  /\ calls' = [calls EXCEPT !.init = @ + 1]
  /\ IF init_raises(argv.input_pdf)
       THEN /\ raised' = "FileNotFoundError"
            /\ pc' = "main_except"
            /\ UNCHANGED <<self, text_blocks, images>>
     ELSE /\ self' = [constructed |-> TRUE, input_pdf_path |-> Path(argv.input_pdf),
                      output |-> IF program = "pdf_to_html" THEN Path(argv.output)
                                 ELSE argv.output]
          /\ text_blocks' = <<>>
          /\ images' = <<>>
          /\ pc' = IF program = "pdf_to_html" THEN "convert" ELSE "pic_extract_images"
          /\ UNCHANGED raised
  /\ UNCHANGED <<converted_blocks, html_content, pdf, program, argv, fs, result,
                 handles, output_files>>

\* converter.convert()
Convert_Begin ==
  /\ pc = "convert"
  /\ calls' = [calls EXCEPT !.convert = @ + 1]
  /\ pc' = "extract_text"
  /\ UNCHANGED <<text_blocks, images, converted_blocks, html_content, pdf, program,
                 argv, fs, self, raised, result, handles, output_files>>

\* self.text_blocks = self.extract_text_with_positions()
\* pdfplumber's handle is closed by its with block; the fitz document of the
\* OCR path stays open when rendering a page raises outside the try block.
Convert_ExtractText ==
  /\ pc = "extract_text"
  /\ LET ocr == text_layer_blocks(pdf) = <<>>
         render_raises == \E n \in 1..Len(pdf.pages) : pdf.pages[n].render_fault
     IN  IF open_raises(pdf.plumber_fault)
           THEN /\ raised' = "RuntimeError" /\ pc' = "main_except"
                /\ UNCHANGED <<text_blocks, handles>>
         ELSE IF ocr /\ open_raises(pdf.fitz_fault)
           THEN /\ raised' = "RuntimeError" /\ pc' = "main_except"
                /\ handles' = [handles EXCEPT !.opened = @ + 1]
                /\ UNCHANGED text_blocks
         ELSE IF ocr /\ render_raises
           THEN /\ raised' = "RuntimeError" /\ pc' = "main_except"
                /\ handles' = [opened |-> handles.opened + 2, open |-> handles.open + 1]
                /\ UNCHANGED text_blocks
         ELSE /\ text_blocks' = extract_text_with_positions(pdf)
              /\ handles' = [handles EXCEPT !.opened = @ + (IF ocr THEN 2 ELSE 1)]
              /\ pc' = "extract_images"
              /\ UNCHANGED raised
  /\ UNCHANGED <<images, converted_blocks, html_content, pdf, program, argv, fs, self,
                 result, calls, output_files>>

\* self.images = self.extract_images()
Convert_ExtractImages ==
  /\ pc = "extract_images"
  /\ IF open_raises(pdf.fitz_fault)
       THEN /\ raised' = "RuntimeError" /\ pc' = "main_except"
            /\ UNCHANGED <<images, handles>>
     ELSE IF image_decode_raises(pdf)
       THEN /\ raised' = "RuntimeError" /\ pc' = "main_except"
            /\ handles' = [opened |-> handles.opened + 1, open |-> handles.open + 1]
            /\ UNCHANGED images
     ELSE /\ images' = extract_images(pdf)
          /\ handles' = [handles EXCEPT !.opened = @ + 1]
          /\ pc' = "convert_layout"
          /\ UNCHANGED raised
  /\ UNCHANGED <<text_blocks, converted_blocks, html_content, pdf, program, argv, fs,
                 self, result, calls, output_files>>

\* the HTML generated from the blocks as extracted, the layout stage left out
Convert_Layout_skipped ==
  /\ pc = "convert_layout"
  /\ converted_blocks' = text_blocks
  /\ pc' = "generate_html"
  /\ UNCHANGED <<text_blocks, images, html_content, pdf, mainVars>>

\* converted_text_blocks = self.convert_layout(self.text_blocks)
Convert_Layout ==
  /\ pc = "convert_layout"
  /\ converted_blocks' = convert_layout(text_blocks)
  /\ pc' = "generate_html"
  /\ UNCHANGED <<text_blocks, images, html_content, pdf, mainVars>>

\* html_content = self.generate_html(converted_text_blocks, self.images)
Convert_GenerateHtml ==
  /\ pc = "generate_html"
  /\ html_content' = generate_html(converted_blocks, images)
  /\ pc' = "write_html"
  /\ UNCHANGED <<text_blocks, images, converted_blocks, pdf, mainVars>>

\* mkdir(parents=True, exist_ok=True); open(..., 'w'); f.write(html_content)
Convert_Write ==
  /\ pc = "write_html"
  /\ IF fs.read_only
       THEN /\ raised' = "PermissionError" /\ pc' = "main_except"
            /\ UNCHANGED fs
     ELSE /\ fs' = [fs EXCEPT !.existing = @ \cup {self.output},
                              !.written = Append(@, [path |-> self.output,
                                                     content |-> html_content])]
          /\ pc' = "main_return"
          /\ UNCHANGED raised
  /\ UNCHANGED <<text_blocks, images, converted_blocks, html_content, pdf, program,
                 argv, self, result, calls, handles, output_files>>

\* output_files = extractor.extract_images()
\* The files saved before an exception stay; the document is then not closed.
Pic_ExtractImages ==
  /\ pc = "pic_extract_images"
  /\ LET paths == pic_extract_images(pdf, self.output)
         saved == pic_saved_files(embedded_images(pdf), self.output)
         early == pic_saved_files(before_decode_fault(embedded_images(pdf)), self.output)
     IN  IF open_raises(pdf.fitz_fault)
           THEN /\ raised' = "RuntimeError" /\ pc' = "main_except"
                /\ UNCHANGED <<fs, handles, output_files>>
         ELSE IF fs.read_only /\ early # <<>>
           THEN /\ raised' = "PermissionError" /\ pc' = "main_except"
                /\ handles' = [opened |-> handles.opened + 1, open |-> handles.open + 1]
                /\ UNCHANGED <<fs, output_files>>
         ELSE IF image_decode_raises(pdf)
           THEN /\ raised' = "RuntimeError" /\ pc' = "main_except"
                /\ fs' = [fs EXCEPT !.written = @ \o early]
                /\ handles' = [opened |-> handles.opened + 1, open |-> handles.open + 1]
                /\ UNCHANGED output_files
         ELSE /\ output_files' = paths
              /\ fs' = [fs EXCEPT !.written = @ \o saved]
              /\ handles' = [handles EXCEPT !.opened = @ + 1]
              /\ pc' = "main_return"
              /\ UNCHANGED raised
  /\ UNCHANGED <<text_blocks, images, converted_blocks, html_content, pdf, program,
                 argv, self, result, calls>>

\* return 0
Main_Return ==
  /\ pc = "main_return"
  /\ result' = 0
  /\ pc' = "main_returned"
  /\ UNCHANGED <<text_blocks, images, converted_blocks, html_content, pdf, program,
                 argv, fs, self, raised, calls, handles, output_files>>

\* except Exception as e: print(...); return 1
Main_Except ==
  /\ pc = "main_except"
  /\ IF main_catches(raised)
       THEN result' = 1 /\ pc' = "main_returned"
     ELSE result' = result /\ pc' = "main_escaped"
  /\ UNCHANGED <<text_blocks, images, converted_blocks, html_content, pdf, program,
                 argv, fs, self, raised, calls, handles, output_files>>

\* The documents main is run on.
Image(xref, n, pix_height, rect, decode_fault) ==
  [xref |-> xref, n |-> n, alpha |-> 0, pix_width |-> 100, pix_height |-> pix_height,
   rect |-> rect, decode_fault |-> decode_fault]

NoRect == [found |-> FALSE, x0 |-> 0, y0 |-> 0, width |-> 0, height |-> 0]
Rect(x0, y0, width, height) ==
  [found |-> TRUE, x0 |-> x0, y0 |-> y0, width |-> width, height |-> height]

ImagePage(rotation, page_images, render_fault) ==
  [chars |-> <<>>, rotation |-> rotation, width |-> 600, height |-> 800,
   ocr_jpn |-> NoOcr, ocr_eng |-> NoOcr, images |-> page_images,
   render_fault |-> render_fault]

\* A page of text with its lower line first; a scanned page; a page turned by 180 with one RGB image
\* of height 2500;
\* an upright page with a tall CMYK image and a placed RGB image; an upright
\* page with an image that cannot be decoded after one that can; a scanned
\* page that cannot be rendered; pages turned by 90 and by 270 with a tall
\* placed image.
MainPages ==
  {Page(<<Glyph("H", 15, 23), Glyph("e", 10, 20)>>, NoOcr, NoOcr),
   Page(<<>>, [raises |-> FALSE, tokens |-> <<Token("x", 90, 40)>>], NoOcr),
   ImagePage(180, <<Image(1, 3, 2500, Rect(10, 20, 50, 30), FALSE)>>, FALSE),
   ImagePage(0, <<Image(2, 4, 3000, NoRect, FALSE),
                  Image(1, 3, 100, Rect(100, 200, 300, 400), FALSE)>>, FALSE),
   ImagePage(0, <<Image(1, 3, 100, NoRect, FALSE), Image(3, 3, 100, NoRect, TRUE)>>, FALSE),
   ImagePage(0, <<>>, TRUE),
   ImagePage(90, <<Image(4, 3, 3000, Rect(10, 20, 50, 30), FALSE)>>, FALSE),
   ImagePage(270, <<Image(4, 3, 3000, Rect(10, 20, 50, 30), FALSE)>>, FALSE)}

InitMain ==
  /\ pc = "main"
  /\ program \in {"pdf_to_html", "pic_extract"}
  /\ argv \in [input_pdf : {<<"in.pdf">>}, output : {<<"out">>, <<".", "out">>}]
  /\ fs \in [existing : SUBSET {<<"in.pdf">>, <<"out">>}, read_only : BOOLEAN,
             written : {<<>>}]
  /\ \E k \in 0..MaxPages : \E pages \in [1..k -> MainPages] :
       \E plumber_fault, fitz_fault \in BOOLEAN :
         pdf = Document(pages, plumber_fault, fitz_fault)
  /\ self = [constructed |-> FALSE]
  /\ raised = "none"
  /\ result = -1
  /\ calls = [init |-> 0, convert |-> 0]
  /\ handles = [opened |-> 0, open |-> 0]
  /\ output_files = <<>>
  /\ text_blocks = <<>>
  /\ images = <<>>
  /\ converted_blocks = <<>>
  /\ html_content = <<>>

NextMain ==
  \/ Main_Construct
  \/ Convert_Begin
  \/ Convert_ExtractText
  \/ Convert_ExtractImages
  \/ Convert_Layout
  \/ Convert_GenerateHtml
  \/ Convert_Write
  \/ Pic_ExtractImages
  \/ Main_Return
  \/ Main_Except

SpecMain == InitMain /\ [][NextMain]_vars

----------------------------------------------------------------------------
(* Properties of convert_layout.                                           *)

NonDecreasingY(s) == \A i \in 1..(Len(s) - 1) : s[i].y <= s[i + 1].y

\* The pages of a list, and the columns convert_layout emits for one page.
PagesOf(blocks) == {blocks[i].page : i \in 1..Len(blocks)}
EmittedColumns(page) == page_columns(layout_page_blocks(text_blocks, page))

\* The largest x of a column: the x of its first member in (-x, y) order.
AnchorX(column) == CHOOSE x \in {column[i].x : i \in 1..Len(column)} :
                     \A i \in 1..Len(column) : column[i].x <= x

\* s occurs in t as a run of consecutive elements.
IsRunOf(s, t) ==
  \E k \in 0..(Len(t) - Len(s)) : SubSeq(t, k + 1, k + Len(s)) = s

\* C1: convert_layout returns a permutation of its input: the output is as
\* long as the input and holds every block as many times as the input does.
C1_Permutation ==
  pc = "layout_done" =>
    /\ Len(converted_blocks) = Len(text_blocks)
    /\ \A b \in Range(text_blocks) \cup Range(converted_blocks) :
         Count(converted_blocks, b) = Count(text_blocks, b)

\* A call on two pages with a block that occurs twice.
C1_Witness ==
  /\ pc = "layout_done"
  /\ Len(text_blocks) = 3
  /\ text_blocks[1] = text_blocks[3]
  /\ text_blocks[2].page # text_blocks[1].page
  /\ Len(converted_blocks) = 3

\* One page whose blocks sit at x = 300, 200 and 100, all three present.
ThreeColumnPage(blocks) ==
  /\ {blocks[i].x : i \in 1..Len(blocks)} = {100, 200, 300}
  /\ Cardinality(PagesOf(blocks)) = 1

\* C2: for one page with columns at x = 300, 200 and 100 the output holds the
\* x = 300 column first, then the x = 200 column, then the x = 100 column.
C2_RightmostColumnFirst ==
  (pc = "layout_done" /\ ThreeColumnPage(text_blocks)) =>
    \A i, j \in 1..Len(converted_blocks) :
      i < j => converted_blocks[i].x >= converted_blocks[j].x

C4_WithinColumnOrder ==
  pc = "layout_done" =>
    \A p \in PagesOf(text_blocks) :
      LET cols == EmittedColumns(p)
      IN  \A c \in 1..Len(cols) :
            /\ NonDecreasingY(cols[c])
            /\ IsRunOf(cols[c], converted_blocks)
            /\ \A b \in Range(cols[c]) :
                 Count(cols[c], b) = Count(converted_blocks, b)

\* A column whose member further right (x = 150) lies lower (y = 40) than its
\* member further left (x = 100, y = 10): the sort by y swaps them.
C4_Witness ==
  /\ pc = "layout_done"
  /\ Len(text_blocks) = 2
  /\ text_blocks[1].page = 0 /\ text_blocks[2].page = 0
  /\ text_blocks[1].x = 150 /\ text_blocks[1].y = 40
  /\ text_blocks[2].x = 100 /\ text_blocks[2].y = 10
  /\ converted_blocks = <<text_blocks[2], text_blocks[1]>>

----------------------------------------------------------------------------
(* Properties of generate_html.                                            *)

\* The page indices of the page containers of the HTML, in document order.
ContainerPages ==
  LET opens == SelectSeq(html_content, LAMBDA part : part.tag = "page")
  IN  [i \in 1..Len(opens) |-> opens[i].id - 1]

\* The parts between the opening of the container of a page and its close.
ContainerParts(page) ==
  LET open == CHOOSE i \in 1..Len(html_content) : html_content[i] = PageOpen(page)
      close == CHOOSE j \in open..Len(html_content) :
                 /\ html_content[j] = PageClose
                 /\ \A k \in open..(j - 1) : html_content[k] # PageClose
  IN  SubSeq(html_content, open + 1, close - 1)

IsBlank(text) == \A i \in 1..Len(text) : text[i] \in Whitespace

\* C5: every page index of the text blocks or of the images has exactly one
\* page container, and the containers are in ascending page order.
C5_PageGroupingCompleteness ==
  pc = "html_done" =>
    /\ Range(ContainerPages) = PagesOf(text_blocks) \cup PagesOf(images)
    /\ \A i, j \in 1..Len(ContainerPages) :
         i < j => ContainerPages[i] < ContainerPages[j]

\* C6: the container of a page holds one image element with a
\* 'data:image/png;base64,' URI per image of that page.
C6_ImagesEmbedded ==
  pc = "html_done" =>
    \A p \in PagesOf(images) :
      /\ p \in Range(ContainerPages)
      /\ Len(SelectSeq(ContainerParts(p), LAMBDA part : part.tag = "image"))
           = Len(SelectSeq(images, LAMBDA img : img.page = p))

\* C7: a text block with empty or all-whitespace text has no text-block
\* element, and every other text block has exactly one.
C7_BlankSuppression ==
  pc = "html_done" =>
    \A t \in {text_blocks[i].text : i \in 1..Len(text_blocks)} :
      Len(SelectSeq(html_content,
                    LAMBDA part : part.tag = "text-block" /\ part.text = t))
        = IF IsBlank(t) THEN 0
          ELSE Len(SelectSeq(text_blocks, LAMBDA b : b.text = t))

\* A call with a whitespace-only block and a block that has text.
C7_Witness ==
  /\ pc = "html_done"
  /\ \E i \in 1..Len(text_blocks) : text_blocks[i].text = <<" ">>
  /\ \E i \in 1..Len(text_blocks) : text_blocks[i].text = <<" ", "a", "\n">>
  /\ Len(SelectSeq(html_content, LAMBDA part : part.tag = "text-block")) = 1

----------------------------------------------------------------------------
(* Properties of extract_text_with_positions.                              *)

\* C8: a page whose glyphs all have a top within 2 of the first glyph's top
\* yields exactly one text block: its text is the glyph texts in input
\* order, its box the envelope of all x0/x1 and y0/y1.
C8_SingleLineGrouping ==
  pc = "extract_done" =>
    \A n \in 1..Len(pdf.pages) :
      LET chars == pdf.pages[n].chars
          xs == UNION {{chars[i].x0, chars[i].x1} : i \in 1..Len(chars)}
          ys == UNION {{chars[i].y0, chars[i].y1} : i \in 1..Len(chars)}
          ofPage == SelectSeq(text_blocks, LAMBDA b : b.page = n - 1)
      IN  ( /\ chars # <<>>
            /\ \A i \in 1..Len(chars) : Abs(chars[i].y0 - chars[1].y0) <= 2 )
          => /\ Len(ofPage) = 1
             /\ ofPage[1].text = Flatten([i \in 1..Len(chars) |-> chars[i].text])
             /\ ofPage[1].x = Min(xs)
             /\ ofPage[1].y = Min(ys)
             /\ ofPage[1].width = Max(xs) - Min(xs)
             /\ ofPage[1].height = Max(ys) - Min(ys)

\* The unit test's page: 'H','e','l','l','o' at y0 = 20.
C8_Witness ==
  /\ pc = "extract_done"
  /\ pdf.pages = <<HelloPage>>
  /\ text_blocks = <<[text |-> <<"H", "e", "l", "l", "o">>, x |-> 10, y |-> 20,
                      width |-> 25, height |-> 15, page |-> 0]>>

----------------------------------------------------------------------------
(* Properties of the constructors and of main.                             *)

\* C9: a constructor given an input path that does not exist raises
\* FileNotFoundError, before any document is opened and before any
\* extraction step runs.
C9_NotFoundAtConstruction ==
  (calls.init > 0 /\ argv.input_pdf \notin fs.existing) =>
    /\ raised = "FileNotFoundError"
    /\ ~self.constructed
    /\ pc \in {"main_except", "main_returned"}
    /\ handles.opened = 0
    /\ calls.convert = 0
    /\ text_blocks = <<>> /\ images = <<>> /\ output_files = <<>>
    /\ fs.written = <<>>

\* The constructor of PDFToHTMLConverter has raised on a missing input path,
\* with the output path present and a document that has pages.
C9_Witness ==
  /\ calls.init = 1
  /\ argv.input_pdf \notin fs.existing
  /\ Path(argv.output) \in fs.existing
  /\ raised = "FileNotFoundError"
  /\ pc = "main_except"
  /\ program = "pdf_to_html"
  /\ Len(pdf.pages) > 0

\* C10: main of pdf_to_html constructs the converter with the two given
\* paths and calls convert once; it returns 0 exactly when both complete
\* without raising and 1 when either raises, and no exception escapes.
C10_ExitOutcome ==
  program = "pdf_to_html" =>
    /\ pc # "main_escaped"
    /\ calls.init <= 1 /\ calls.convert <= 1
    /\ self.constructed =>
         /\ self.input_pdf_path = Path(argv.input_pdf)
         /\ self.output = Path(argv.output)
    /\ (pc \notin {"main", "main_except"} /\ raised = "none") => self.constructed
    /\ (pc = "main_return") => calls.convert = 1 /\ raised = "none"
    /\ (pc = "main_except") => raised # "none"
    /\ (pc = "main_returned") =>
         /\ result \in {0, 1}
         /\ calls.init = 1
         /\ result = 0 <=> raised = "none"
         /\ result = 0 => /\ calls.convert = 1
                          /\ Len(fs.written) = 1
                          /\ fs.written[1].path = Path(argv.output)
         /\ raised = "none" => self.constructed
         /\ (self.constructed <=> calls.convert = 1)
    /\ (pc # "main_returned") => result = -1

\* main has returned 1 after convert raised while writing the output.
C10_Witness ==
  /\ program = "pdf_to_html"
  /\ pc = "main_returned"
  /\ result = 1
  /\ calls.convert = 1
  /\ raised = "PermissionError"

----------------------------------------------------------------------------
(* Properties of PDFImageExtractor.extract_images.                         *)

\* number is the decimal numeral of i, at least three digits wide.
IsNumeral03d(number, i) ==
  /\ Len(number) = 3
  /\ \A k \in 1..3 : number[k] \in 0..9
  /\ 100 * number[1] + 10 * number[2] + number[3] = i

\* The file numbered i of a run with the given prefix.
IsNumberedPath(path, i) ==
  /\ path.prefix = Path(argv.output)
  /\ IsNumeral03d(path.number, i)
  /\ path.suffix = ".png"

\* extract_images of PDFImageExtractor has ended, normally or by raising.
PicExtractEnded == program = "pic_extract" /\ self.constructed /\ pc # "pic_extract_images"
PicExtractReturned == PicExtractEnded /\ raised = "none"

\* C11: the i-th entry (from 0) of the list PDFImageExtractor.extract_images
\* returns is the path {prefix}_{i:03d}.png; the counter starts at 0, grows
\* by one per written file and is not reset between pages, and the files
\* are written in page order and, within a page, in embedded-image order.
C11_OutputFileNaming ==
  PicExtractEnded =>
    /\ \A i \in 1..Len(fs.written) : IsNumberedPath(fs.written[i].path, i - 1)
    /\ \A i, j \in 1..Len(fs.written) :
         i < j => \/ fs.written[i].page_num < fs.written[j].page_num
                  \/ /\ fs.written[i].page_num = fs.written[j].page_num
                     /\ fs.written[i].img_index <= fs.written[j].img_index
    /\ PicExtractReturned =>
         /\ Len(output_files) = Len(fs.written)
         /\ \A i \in 1..Len(output_files) : output_files[i] = fs.written[i].path

\* A run given the prefix "./out" has returned at least three paths, for
\* images of two pages, the second page having two embedded images.
C11_Witness ==
  /\ PicExtractReturned
  /\ argv.output = <<".", "out">>
  /\ Len(output_files) >= 3
  /\ fs.written[1].page_num = 0
  /\ \E i, j \in 1..Len(fs.written) :
       /\ fs.written[i].page_num = 1 /\ fs.written[j].page_num = 1
       /\ fs.written[i].img_index < fs.written[j].img_index

\* The height of an embedded image once turned upright.
UprightHeight(ref) ==
  IF ref.page.rotation \in {90, 270} THEN ref.img.pix_width ELSE ref.img.pix_height

\* The embedded images saved as two files: those taller than 2500 on a page
\* after the first.
SplitImages ==
  {k \in 1..Len(embedded_images(pdf)) :
     /\ embedded_images(pdf)[k].page_num >= 1
     /\ UprightHeight(embedded_images(pdf)[k]) > 2500}

\* C12 as stated: the number of PNG files written and of paths returned by
\* PDFImageExtractor.extract_images equals the number of embedded image
\* references over all pages.
C12_OneFilePerImage ==
  PicExtractReturned =>
    /\ Len(fs.written) = Len(embedded_images(pdf))
    /\ Len(output_files) = Len(embedded_images(pdf))

\* C12 amended: a call that returns has written, and returned the paths of,
\* one file per embedded image reference and one more for every reference
\* on a page after the first whose upright image is taller than 2500.
C12_FilesPerRegion ==
  PicExtractReturned =>
    /\ Len(fs.written) = Len(embedded_images(pdf)) + Cardinality(SplitImages)
    /\ Len(output_files) = Len(fs.written)
    /\ \A k \in 1..Len(embedded_images(pdf)) :
         LET ref == embedded_images(pdf)[k]
         IN  Cardinality({i \in 1..Len(fs.written) :
                            /\ fs.written[i].page_num = ref.page_num
                            /\ fs.written[i].img_index = ref.img_index})
               = IF k \in SplitImages THEN 2 ELSE 1

\* A call has returned for a document with an image taller than 2500 on its
\* first page (one file) and another on its second page (two files).
C12_Witness ==
  /\ PicExtractReturned
  /\ pc = "main_return"
  /\ Cardinality(SplitImages) = 1
  /\ \E k \in 1..Len(embedded_images(pdf)) :
       /\ embedded_images(pdf)[k].page_num = 0
       /\ UprightHeight(embedded_images(pdf)[k]) > 2500
  /\ Len(output_files) = Len(embedded_images(pdf)) + 1

----------------------------------------------------------------------------
(* Properties of PDFToHTMLConverter.extract_images.                        *)

\* extract_images of PDFToHTMLConverter has returned inside convert.
ImagesExtracted ==
  /\ program = "pdf_to_html"
  /\ pc \in {"convert_layout", "generate_html", "write_html", "main_return"}

\* C13: an image placed at (x, y, w, h) on a page of size (W, H) is recorded
\* with (W - x - w, H - y - h, w, h) when the page rotation is 180 and with
\* (x, y, w, h) when it is 0, 90 or 270; rotation 180 and (10, 20, 50, 30) on
\* a 600x800 page give (540, 750, 50, 30).
C13_PlacementRectangle ==
  ImagesExtracted =>
    /\ Len(images) = Len(embedded_images(pdf))
    /\ \A k \in 1..Len(images) :
         LET ref == embedded_images(pdf)[k]
             rect == ref.img.rect
             recorded == <<images[k].x, images[k].y, images[k].width, images[k].height>>
         IN  /\ images[k].page = ref.page_num
             /\ (rect.found /\ ref.page.rotation = 180) =>
                  /\ recorded = <<ref.page.width - rect.x0 - rect.width,
                                  ref.page.height - rect.y0 - rect.height,
                                  rect.width, rect.height>>
                  /\ (<<rect.x0, rect.y0, rect.width, rect.height>> = <<10, 20, 50, 30>>
                        /\ ref.page.width = 600 /\ ref.page.height = 800)
                       => recorded = <<540, 750, 50, 30>>
             /\ (rect.found /\ ref.page.rotation \in {0, 90, 270}) =>
                  recorded = <<rect.x0, rect.y0, rect.width, rect.height>>

\* extract_images has returned the image of a page turned by 180 at
\* (540, 750, 50, 30) and the image of a page turned by 90 where it was found.
C13_Witness ==
  /\ ImagesExtracted
  /\ Len(images) = 2
  /\ pdf.pages[1].rotation = 180 /\ pdf.pages[2].rotation = 90
  /\ <<images[1].x, images[1].y, images[1].width, images[1].height>> = <<540, 750, 50, 30>>
  /\ <<images[2].x, images[2].y, images[2].width, images[2].height>> = <<10, 20, 50, 30>>

\* The picture of an embedded image corrected for the page rotation: not
\* turned for 0, turned by 180 for 180, by -90 for 90 and by +90 for 270
\* (counter-clockwise degrees modulo 360), width and height swapped for 90
\* and 270.
IsCorrected(png, ref) ==
  LET rotation == ref.page.rotation
      swapped == rotation \in {90, 270}
  IN  /\ png.xref = ref.img.xref
      /\ png.turn = (CASE rotation = 0 -> 0
                       [] rotation = 180 -> 180
                       [] rotation = 90 -> (0 - 90) % 360
                       [] rotation = 270 -> 90)
      /\ png.width = (IF swapped THEN ref.img.pix_height ELSE ref.img.pix_width)
      /\ png.height = (IF swapped THEN ref.img.pix_width ELSE ref.img.pix_height)

\* C14: the stored image is not turned for page rotation 0, turned by 180
\* for 180, by -90 for 90 and by +90 for 270, with width and height swapped
\* for 90 and 270; PDFToHTMLConverter.extract_images and
\* PDFImageExtractor.extract_images use the same mapping.
C14_RotationCorrection ==
  /\ ImagesExtracted =>
       \A k \in 1..Len(images) :
         IsCorrected(images[k].image_data, embedded_images(pdf)[k])
  /\ PicExtractEnded =>
       \A i \in 1..Len(fs.written) :
         \E k \in 1..Len(embedded_images(pdf)) :
           LET ref == embedded_images(pdf)[k]
           IN  /\ ref.page_num = fs.written[i].page_num
               /\ ref.img_index = fs.written[i].img_index
               /\ IsCorrected(fs.written[i].content.image, ref)

\* The converter has returned the 100x3000 image of a page turned by 90 as
\* a 3000x100 picture turned by -90, and that of a page turned by 270 as a
\* 3000x100 picture turned by +90.
C14_Witness ==
  /\ ImagesExtracted
  /\ Len(images) = 2
  /\ pdf.pages[1].rotation = 90 /\ pdf.pages[2].rotation = 270
  /\ images[1].image_data.turn = 270 /\ images[2].image_data.turn = 90
  /\ images[1].image_data.width = 3000 /\ images[1].image_data.height = 100
  /\ images[2].image_data.width = 3000 /\ images[2].image_data.height = 100

\* The document of a converter run can be opened, its text can be extracted
\* and the output can be written.
NoFaultButImages ==
  /\ Path(argv.input_pdf) \in fs.existing
  /\ ~pdf.plumber_fault /\ ~pdf.fitz_fault /\ ~fs.read_only
  /\ \A n \in 1..Len(pdf.pages) : ~pdf.pages[n].render_fault

\* The embedded images that can be decoded, converted and turned.
SoundImages == SelectSeq(embedded_images(pdf), LAMBDA ref : ~ref.img.decode_fault)

\* C15: when decoding, colour conversion or rotation of one embedded image
\* fails in PDFToHTMLConverter.extract_images, the images that do not fail,
\* of the same page and of the other pages, are still returned, and the
\* conversion does not fail.
C15_PerImageFaultIsolation ==
  (program = "pdf_to_html" /\ NoFaultButImages) =>
    /\ ImagesExtracted =>
         images = [k \in 1..Len(SoundImages) |->
                     page_image(SoundImages[k].img, SoundImages[k].page,
                                SoundImages[k].page_num)]
    /\ pc = "main_returned" => result = 0

----------------------------------------------------------------------------
(* Properties of extract_text_with_ocr.                                    *)

\* The OCR data the try block of a page works on.
OcrData(page) ==
  IF page.ocr_jpn.raises THEN page.ocr_jpn
  ELSE IF \E i \in 1..Len(page.ocr_jpn.tokens) : ~IsBlank(page.ocr_jpn.tokens[i].text)
    THEN page.ocr_jpn
  ELSE page.ocr_eng

\* An exception is raised in the try block of the page: by an OCR call, or
\* by a token with text whose confidence cannot be read.
OcrFails(page) ==
  \/ OcrData(page).raises
  \/ \E i \in 1..Len(OcrData(page).tokens) :
       /\ ~IsBlank(OcrData(page).tokens[i].text)
       /\ OcrData(page).tokens[i].faulty

\* C16: when an exception is raised while a page is OCR-processed, in the
\* OCR call or while its tokens are processed, the list returned by
\* extract_text_with_ocr holds no block of that page and the blocks of the
\* other pages as if the failing page did not exist.
C16_PerPageOcrFailure ==
  pc = "ocr_done" =>
    text_blocks = Flatten([n \in 1..Len(pdf.pages) |->
                             IF OcrFails(pdf.pages[n]) THEN <<>>
                             ELSE ocr_page(pdf.pages[n], n - 1)])

----------------------------------------------------------------------------
(* Release of the document handles.                                        *)

\* C17: the document handle opened at the start of extract_text_with_ocr,
\* of PDFToHTMLConverter.extract_images and of
\* PDFImageExtractor.extract_images is closed before the call ends, when it
\* returns and when it ends with an exception raised while a page or an
\* image is processed. Every state of main lies between two such calls.
C17_HandleReleased == handles.open = 0

----------------------------------------------------------------------------
(* Line grouping and the OCR fallback of extract_text_with_positions.      *)

\* The blocks of one page in a list, in order.
BlocksOfPage(blocks, page_num) == SelectSeq(blocks, LAMBDA b : b.page = page_num)

\* The indices at which the runs of a glyph sequence start: the first glyph,
\* and every glyph whose top is more than 2 away from the top of the glyph
\* that starts the run before it.
RunStarts(chars) ==
  CHOOSE S \in SUBSET (1..Len(chars)) :
    \A i \in 1..Len(chars) :
      i \in S <=> \/ i = 1
                  \/ /\ {s \in S : s < i} # {}
                     /\ Abs(chars[i].y0 - chars[Max({s \in S : s < i})].y0) > 2

\* The r-th run: from the r-th start to the glyph before the next start.
Run(chars, r) ==
  LET S == RunStarts(chars)
      first == CHOOSE s \in S : Cardinality({t \in S : t < s}) = r - 1
      later == {t \in S : t > first}
  IN  SubSeq(chars, first, IF later = {} THEN Len(chars) ELSE Min(later) - 1)

\* C18: within a page, the text blocks of extract_text_with_positions are the
\* maximal runs of consecutive glyphs whose tops are within 2 of the top of
\* the run's first glyph; a glyph further away closes the run and starts the
\* next one as its reference, the previous glyph is never the reference, and
\* the last run is flushed at the end of the page.
C18_LineGrouping ==
  (pc = "extract_done" /\ \E n \in 1..Len(pdf.pages) : pdf.pages[n].chars # <<>>) =>
    \A n \in 1..Len(pdf.pages) :
      LET chars == pdf.pages[n].chars
          blocks == BlocksOfPage(text_blocks, n - 1)
      IN  /\ Len(blocks) = Cardinality(RunStarts(chars))
          /\ \A r \in 1..Len(blocks) :
               /\ blocks[r].text = Flatten([i \in 1..Len(Run(chars, r)) |->
                                              Run(chars, r)[i].text])
               /\ blocks[r] = create_text_block_from_chars(Run(chars, r), n - 1)

\* A page with glyphs at tops 20, 22 and 23 has given two blocks: the third
\* glyph is 1 from the second but 3 from the first.
C18_Witness ==
  /\ pc = "extract_done"
  /\ Len(pdf.pages) = 1
  /\ [i \in 1..Len(pdf.pages[1].chars) |-> pdf.pages[1].chars[i].y0] = <<20, 22, 23>>
  /\ Len(text_blocks) = 2
  /\ Len(text_blocks[1].text) = 2

\* C19 as stated: every page with zero glyphs gets its blocks from the OCR
\* path, also when other pages of the document have glyphs.
C19_OcrFallbackPerPage ==
  pc = "extract_done" =>
    \A n \in 1..Len(pdf.pages) :
      pdf.pages[n].chars = <<>> =>
        BlocksOfPage(text_blocks, n - 1) = ocr_page(pdf.pages[n], n - 1)

\* C19 amended: a page with zero glyphs contributes no block from the
\* text-layer path; the OCR path is taken only when no page of the document
\* has glyphs, and then gives the blocks of every page; when some page has
\* glyphs, a page without glyphs contributes no block.
C19_OcrFallbackWholeDocument ==
  pc = "extract_done" =>
    IF \E n \in 1..Len(pdf.pages) : pdf.pages[n].chars # <<>>
      THEN \A n \in 1..Len(pdf.pages) :
             pdf.pages[n].chars = <<>> => BlocksOfPage(text_blocks, n - 1) = <<>>
    ELSE \A n \in 1..Len(pdf.pages) :
           BlocksOfPage(text_blocks, n - 1) = ocr_page(pdf.pages[n], n - 1)

\* A scanned page on which OCR finds two lines, after a page with glyphs,
\* has given no block.
C19_Witness ==
  /\ pc = "extract_done"
  /\ Len(pdf.pages) = 2
  /\ pdf.pages[1].chars # <<>> /\ pdf.pages[2].chars = <<>>
  /\ Len(ocr_page(pdf.pages[2], 1)) = 2
  /\ BlocksOfPage(text_blocks, 1) = <<>>
  /\ text_blocks # <<>>

----------------------------------------------------------------------------
(* Rendering order of generate_html.                                       *)

\* The elements of a set of page indices in ascending order.
Ascending(S) ==
  [k \in 1..Cardinality(S) |-> CHOOSE p \in S : Cardinality({q \in S : q < p}) = k - 1]

\* The container expected for a page: its opening with id page-{index+1},
\* the heading Page {index+1}, one text-block element per non-blank block
\* of the page, in input order and with the text as given, and its close.
ExpectedContainer(page) ==
  LET shown == SelectSeq(text_blocks, LAMBDA b : b.page = page /\ ~IsBlank(b.text))
  IN  <<[tag |-> "page", id |-> page + 1], [tag |-> "h2", id |-> page + 1]>>
      \o [i \in 1..Len(shown) |-> [tag |-> "text-block", text |-> shown[i].text]]
      \o <<[tag |-> "/page"]>>

\* C20: for the pages of the text-block list, generate_html emits the page
\* containers in ascending page index, not in order of first appearance,
\* each with id page-{index+1} and heading Page {index+1}, and in each the
\* text-block elements are exactly the page's non-blank blocks, text
\* unmodified, in their relative input order.
C20_RenderingOrder ==
  pc = "html_done" =>
    LET order == Ascending({text_blocks[i].page : i \in 1..Len(text_blocks)})
    IN  html_content = Flatten([k \in 1..Len(order) |-> ExpectedContainer(order[k])])

\* A call whose first block is of page 1 and whose next two blocks, with
\* text " a\n" and "a", are of page 0: the container of page 0 comes first
\* and holds the two texts in that order.
C20_Witness ==
  /\ pc = "html_done"
  /\ [i \in 1..Len(text_blocks) |-> text_blocks[i].page] = <<1, 0, 0>>
  /\ text_blocks[2].text = <<" ", "a", "\n">> /\ text_blocks[3].text = <<"a">>
  /\ ContainerPages = <<0, 1>>
  /\ ContainerParts(0) = <<[tag |-> "h2", id |-> 1],
                           [tag |-> "text-block", text |-> <<" ", "a", "\n">>],
                           [tag |-> "text-block", text |-> <<"a">>]>>

----------------------------------------------------------------------------
(* Further properties of convert_layout.                                   *)

\* The positions at which a list holds blocks of a page.
PositionsOfPage(blocks, page) == {i \in 1..Len(blocks) : blocks[i].page = page}

\* C21: convert_layout treats every page on its own: the output blocks of a
\* page are contiguous, their order is the one convert_layout gives for the
\* blocks of that page alone, so that no column mixes pages, and every
\* output block keeps the page index it had in the input.
C21_PerPageIndependence ==
  pc = "layout_done" =>
    /\ \A page \in PagesOf(text_blocks) \cup PagesOf(converted_blocks) :
         LET at == PositionsOfPage(converted_blocks, page)
         IN  /\ at # {}
             /\ at = Min(at)..Max(at)
             /\ SubSeq(converted_blocks, Min(at), Max(at))
                  = convert_layout(BlocksOfPage(text_blocks, page))
    /\ \A i \in 1..Len(converted_blocks) :
         Count(converted_blocks, converted_blocks[i])
           = Count(text_blocks, converted_blocks[i])

\* A list with a block of page 0 between two blocks of page 1, all in the
\* same x band: the output holds the two blocks of page 1 first, side by side.
C21_Witness ==
  /\ pc = "layout_done"
  /\ [i \in 1..Len(text_blocks) |-> text_blocks[i].page] = <<1, 0, 1>>
  /\ \A i \in 1..Len(text_blocks) : text_blocks[i].x = 100
  /\ [i \in 1..Len(converted_blocks) |-> converted_blocks[i].page] = <<1, 1, 0>>

\* C23: convert_layout is idempotent: applied to its own output it returns
\* that output again, for any pages, positions and ties. In the state after
\* the second call, converted_blocks is convert_layout(convert_layout(L))
\* for the input L kept in text_blocks.
C23_Idempotent ==
  pc = "layout_again" => converted_blocks = convert_layout(text_blocks)

\* A second call has returned for a list the first call reordered, with
\* two blocks that differ only in their text.
C23_Witness ==
  /\ pc = "layout_again"
  /\ converted_blocks # text_blocks
  /\ \E i, j \in 1..Len(text_blocks) :
       /\ i < j
       /\ text_blocks[i].text # text_blocks[j].text
       /\ text_blocks[i].x = text_blocks[j].x
       /\ text_blocks[i].y = text_blocks[j].y
       /\ text_blocks[i].page = text_blocks[j].page

\* The blocks of a list are of one page and no two are at the same (x, y).
OnePageDistinctPositions(blocks) ==
  /\ Cardinality(PagesOf(blocks)) = 1
  /\ \A i, j \in 1..Len(blocks) :
       (blocks[i].x = blocks[j].x /\ blocks[i].y = blocks[j].y) => i = j

\* The blocks of such a list in one fixed order: ascending by x, then by y.
Canonical(blocks) ==
  LET Before(i) == {j \in 1..Len(blocks) :
                      \/ blocks[j].x < blocks[i].x
                      \/ blocks[j].x = blocks[i].x /\ blocks[j].y < blocks[i].y}
  IN  [r \in 1..Len(blocks) |->
         blocks[CHOOSE i \in 1..Len(blocks) : Cardinality(Before(i)) = r - 1]]

\* C24: for lists of blocks of one page at pairwise distinct (x, y), the
\* output of convert_layout does not depend on the input order: every
\* permutation of a list gives the output of the list's canonical
\* arrangement, so any two permutations give the same output.
C24_InputOrderIndependence ==
  (pc = "layout_done" /\ OnePageDistinctPositions(text_blocks)) =>
    converted_blocks = convert_layout(Canonical(text_blocks))

\* A call on three blocks of one page at distinct positions that are given
\* neither in the canonical order nor in the order of the output.
C24_Witness ==
  /\ pc = "layout_done"
  /\ Len(text_blocks) = 3
  /\ OnePageDistinctPositions(text_blocks)
  /\ text_blocks # Canonical(text_blocks)
  /\ text_blocks # converted_blocks
  /\ converted_blocks # Canonical(text_blocks)

----------------------------------------------------------------------------
(* Glyph conservation of the text-layer path.                              *)

\* The texts of a list of glyphs or of blocks, concatenated in order.
TextOf(s) == Flatten([i \in 1..Len(s) |-> s[i].text])

\* C22: for a document with at least one glyph, the texts of the returned
\* blocks, concatenated in output order, are the glyph texts in page order
\* and input order; page by page the blocks hold exactly the glyphs of the
\* page, each once and in order, no block is empty, each block carries the
\* page of its glyphs, and the blocks are in ascending page order.
C22_GlyphConservation ==
  (pc = "extract_done" /\ \E n \in 1..Len(pdf.pages) : pdf.pages[n].chars # <<>>) =>
    /\ TextOf(text_blocks)
         = Flatten([n \in 1..Len(pdf.pages) |-> TextOf(pdf.pages[n].chars)])
    /\ \A n \in 1..Len(pdf.pages) :
         TextOf(BlocksOfPage(text_blocks, n - 1)) = TextOf(pdf.pages[n].chars)
    /\ \A i \in 1..Len(text_blocks) :
         /\ text_blocks[i].page \in 0..(Len(pdf.pages) - 1)
         /\ text_blocks[i].text # <<>>
    /\ \A i, j \in 1..Len(text_blocks) :
         i < j => text_blocks[i].page <= text_blocks[j].page

\* A document with two lines of one glyph on its first page and a glyph on
\* its second page has given three blocks.
C22_Witness ==
  /\ pc = "extract_done"
  /\ Len(pdf.pages) = 2
  /\ Len(pdf.pages[1].chars) = 2 /\ Len(pdf.pages[2].chars) = 1
  /\ [i \in 1..Len(text_blocks) |-> text_blocks[i].page] = <<0, 0, 1>>
  /\ TextOf(text_blocks) = TextOf(pdf.pages[1].chars) \o TextOf(pdf.pages[2].chars)

----------------------------------------------------------------------------
(* Stage ordering of PDFToHTMLConverter.convert.                           *)

\* One step of a run of pdf_to_html, seen from convert: a stage hands over
\* to the next one or raises, works on the results of the stages before it
\* while the later results are still empty, and leaves the file system
\* alone unless it is the write.
C25_Step ==
  program = "pdf_to_html" =>
    /\ pc = "convert" => pc' = "extract_text"
    /\ pc = "extract_text" =>
         /\ images = <<>> /\ converted_blocks = <<>> /\ html_content = <<>>
         /\ \/ /\ pc' = "extract_images" /\ raised' = "none"
               /\ text_blocks' = extract_text_with_positions(pdf)
            \/ pc' = "main_except" /\ raised' # "none"
    /\ pc = "extract_images" =>
         /\ text_blocks = extract_text_with_positions(pdf)
         /\ converted_blocks = <<>> /\ html_content = <<>>
         /\ \/ /\ pc' = "convert_layout" /\ raised' = "none"
               /\ images' = extract_images(pdf)
            \/ pc' = "main_except" /\ raised' # "none"
    /\ pc = "convert_layout" =>
         /\ images = extract_images(pdf)
         /\ html_content = <<>>
         /\ pc' = "generate_html" /\ raised' = "none"
         /\ converted_blocks' = convert_layout(text_blocks)
    /\ pc = "generate_html" =>
         /\ pc' = "write_html" /\ raised' = "none"
         /\ html_content' = generate_html(converted_blocks, images)
    /\ pc = "write_html" =>
         \/ /\ pc' = "main_return" /\ raised' = "none"
            /\ fs'.written
                 = <<[path |-> Path(argv.output),
                      content |-> generate_html(
                                    convert_layout(extract_text_with_positions(pdf)),
                                    extract_images(pdf))]>>
         \/ pc' = "main_except" /\ raised' # "none"
    /\ pc # "write_html" => fs' = fs
    /\ pc \notin {"main_return", "main_returned"} => fs.written = <<>>
    /\ pc' = "main_except" => fs' = fs
    /\ pc \in {"main_return", "main_except"} => pc' = "main_returned"
    /\ pc' = "main_returned" =>
         /\ result' = 0 <=> raised' = "none"
         /\ result' = 0 <=> fs'.written # <<>>

\* C25: the stages of convert run in the order text extraction, image
\* extraction, layout conversion, HTML generation, write; the file system
\* changes in the write only, so a run in which an earlier stage raises
\* creates and modifies no file; and a successful run has written, at the
\* output path, generate_html of the convert_layout of the extracted text
\* blocks and the extracted images.
C25_StageOrdering == [][C25_Step]_vars

\* A successful run on a document whose layout conversion reorders the
\* blocks and whose images are extracted has written its file.
C25_Witness ==
  /\ program = "pdf_to_html"
  /\ pc = "main_returned" /\ result = 0
  /\ Len(fs.written) = 1
  /\ converted_blocks # text_blocks
  /\ images # <<>>
  /\ fs.written[1].content = html_content

====
